---- MODULE Spec2Model ----
(***************************************************************************)
(* Model of ml/btw_ml.py: a worker that reads line-delimited JSON requests *)
(* from stdin, sends PCM audio to the Groq transcription service and       *)
(* writes line-delimited JSON responses to stdout.                         *)
(***************************************************************************)
EXTENDS Integers, Sequences, FiniteSets, TLC

VARIABLES
    pc,          \* "read" (blocked in `for line in sys.stdin`), "calling" (blocked in transcriptions.create), "exited"
    stdinClosed, \* the parent has closed the worker's stdin
    nRead,       \* number of lines taken from stdin so far
    nParsed,     \* number of those lines json.loads accepted
    apiKey,      \* os.environ["GROQ_API_KEY"]: "set", "empty" or "absent"
    groqCtor,    \* the installed Groq SDK, given no key: "raise" in Groq() or "ok" (its calls fail)
    numpy,       \* the installed NumPy, given an out-of-range int: "wrap" (1.x) or "raise" (2.x)
    client,      \* the module global _client: "None" or "Groq"
    envReads,    \* number of os.environ.get("GROQ_API_KEY") evaluations
    ctorCalls,   \* number of Groq(...) constructor calls
    cur,         \* bookkeeping about the line most recently taken from stdin
    inflight,    \* the wav bytes uploaded by the service call in progress (<<>> when none)
    outBuf,      \* response lines written to sys.stdout and not yet flushed
    stdout,      \* response lines the parent can read
    stderr,      \* diagnostic lines
    exitCode,    \* process exit status, -1 while running
    exitCause,   \* "none", "eof", "interrupt", or the code site whose exception escaped main()
    encIn,       \* encoder study: the sample array handed to pcm16_to_wav_bytes
    encOut,      \* encoder study: the bytes it returned
    encPc        \* encoder study: "in" before the call, "out" after it, "off" in the worker run

vars == <<pc, stdinClosed, nRead, nParsed, apiKey, groqCtor, numpy, client, envReads, ctorCalls, cur,
          inflight, outBuf, stdout, stderr, exitCode, exitCause, encIn, encOut, encPc>>

workerVars == <<pc, stdinClosed, nRead, nParsed, apiKey, groqCtor, numpy, client, envReads, ctorCalls, cur,
                inflight, outBuf, stdout, stderr, exitCode, exitCause>>

encVars == <<encIn, encOut, encPc>>

(***************************************************************************)
(* Bounds                                                                  *)
(***************************************************************************)
MaxLines == 2

MaxLen == 2

(***************************************************************************)
(* JSON values as json.loads returns them                                  *)
(***************************************************************************)
J(t, n, s, items) == [t |-> t, n |-> n, s |-> s, items |-> items]

JNull == J("null", 0, "", <<>>)

JInt(n) == J("int", n, "", <<>>)

\* a float, kept in tenths: JFloat(160005) is 16000.5
JFloat(tenths) == J("float", tenths, "", <<>>)

JStr(s) == J("str", 0, s, <<>>)

JBool(b) == J("bool", IF b THEN 1 ELSE 0, "", <<>>)

JList(items) == J("list", 0, "", items)

\* the key is not present in the object
Absent == J("absent", 0, "", <<>>)

JObject(typ, fmt, sr, samples) ==
    [t |-> "object", type |-> typ, audio_format |-> fmt, sample_rate |-> sr, samples |-> samples]

\* a string holding an unpaired surrogate, as json.loads returns for "\ud800"
LoneSurrogate == "\\ud800"

IsObject(v) == v.t = "object"

\* dict.get(key, default)
DictGet(val, default) == IF val = Absent THEN default ELSE val


(***************************************************************************)
(* Python values and conversions used by the handlers                      *)
(***************************************************************************)
Exc(cls, msg) == [cls |-> cls, msg |-> msg]

NoExc == Exc("", "")

Ok(v) == [raised |-> FALSE, exc |-> NoExc, v |-> v]

Raise(cls, msg) == [raised |-> TRUE, exc |-> Exc(cls, msg), v |-> 0]

\* the decimal literals int(str) is tried on
IntLiterals == {8000, 16000}

\* int(x) for a value json.loads produced
PyInt(x) ==
    CASE x.t = "int" -> Ok(x.n)
      [] x.t = "bool" -> Ok(x.n)
      [] x.t = "float" -> Ok(IF x.n >= 0 THEN x.n \div 10 ELSE -((-x.n) \div 10))
      [] x.t = "str" ->
            IF \E n \in IntLiterals : ToString(n) = x.s
            THEN Ok(CHOOSE n \in IntLiterals : ToString(n) = x.s)
            ELSE Raise("ValueError", "invalid literal for int() with base 10")
      [] OTHER -> Raise("TypeError", "int() argument must be a string, a bytes-like object or a real number")

\* str(x), as an f-string formats it
PyStr(x) ==
    CASE x.t = "str" -> x.s
      [] x.t = "int" -> ToString(x.n)
      [] x.t = "bool" -> IF x.n = 1 THEN "True" ELSE "False"
      [] x.t = "float" -> ToString(x.n \div 10) \o "." \o ToString(x.n % 10)
      [] OTHER -> "None"

\* whether sys.stdout's UTF-8 encoder accepts the text
Encodable(s) == s # LoneSurrogate

(***************************************************************************)
(* Audio encoder                                                           *)
(***************************************************************************)
Int16Min == -32768

Int16Max == 32767

TwoTo16 == 65536

SampleRate == 16000

\* C cast of an integer to int16: keep the low 16 bits, two's complement
WrapInt16(x) == LET u == x % TwoTo16 IN IF u > Int16Max THEN u - TwoTo16 ELSE u

\* ndarray.astype(np.int16) on an integer array
AsTypeInt16(samples) == [i \in 1..Len(samples) |-> WrapInt16(samples[i])]

\* n as `width` little-endian bytes
RECURSIVE LE(_, _)
LE(n, width) == IF width = 0 THEN <<>> ELSE <<n % 256>> \o LE(n \div 256, width - 1)

\* a tobytes() that emits the high byte first
RECURSIVE ToBytesBigEndian(_)
ToBytesBigEndian(pcm) ==
    IF pcm = <<>> THEN <<>>
    ELSE <<(pcm[1] % TwoTo16) \div 256, (pcm[1] % TwoTo16) % 256>> \o ToBytesBigEndian(Tail(pcm))

\* ndarray.tobytes() of an int16 array on a little-endian host
RECURSIVE ToBytes(_)
ToBytes(pcm) == IF pcm = <<>> THEN <<>> ELSE LE(pcm[1] % TwoTo16, 2) \o ToBytes(Tail(pcm))

TagRIFF == <<82, 73, 70, 70>>

TagWAVE == <<87, 65, 86, 69>>

TagFmt == <<102, 109, 116, 32>>

TagData == <<100, 97, 116, 97>>

\* the file wave.open(buf, 'wb') writes on close: RIFF header, fmt chunk, data chunk
WaveWrite(nchannels, sampwidth, framerate, frames) ==
    TagRIFF \o LE(36 + Len(frames), 4) \o TagWAVE
    \o TagFmt \o LE(16, 4) \o LE(1, 2) \o LE(nchannels, 2) \o LE(framerate, 4)
    \o LE(nchannels * framerate * sampwidth, 4) \o LE(nchannels * sampwidth, 2)
    \o LE(sampwidth * 8, 2)
    \o TagData \o LE(Len(frames), 4) \o frames

pcm16_to_wav_bytes(samples, sample_rate) ==
    WaveWrite(1, 2, sample_rate, ToBytes(AsTypeInt16(samples)))


(***************************************************************************)
(* Responses and diagnostics                                               *)
(***************************************************************************)
\* the "error" member: None, or f"{tag}: {cls}: {msg}" (f"{tag}: {msg}" when cls is empty)
ErrNone == [tag |-> "null", cls |-> "", msg |-> ""]

Err(tag, cls, msg) == [tag |-> tag, cls |-> cls, msg |-> msg]

Resp(text, error) == [type |-> "asr_result", text |-> text, confidence |-> "null", error |-> error]

\* the response main() builds when handle_asr raised e
HandlerErrorResp(e) == Resp("", Err("asr_handler_error", e.cls, e.msg))

\* the response main() builds for a type other than "asr"
UnknownTypeResp(typ) == Resp("", Err("unknown_request_type", "", PyStr(typ)))

\* the response handle_asr builds when transcriptions.create raised e
AsrFailedResp(e) == Resp("", Err("groq_asr_failed", e.cls, e.msg))

\* the response handle_asr builds from the service's reply (text is "" when the reply has none)
AsrOkResp(text) == Resp(text, ErrNone)

\* whether sys.stdout.write accepts json.dumps(resp, ensure_ascii=False)
RespEncodable(resp) == Encodable(resp.text) /\ Encodable(resp.error.msg)

(***************************************************************************)
(* handle_asr up to the service call                                       *)
(***************************************************************************)
InInt16(n) == Int16Min <= n /\ n <= Int16Max

\* np.array(items, dtype=np.int16) for a list json.loads produced.  An out-of-range
\* Python int wraps on NumPy 1.x and raises OverflowError on NumPy 2.x: `overflow`
\* is "wrap" or "raise".
NpArrayInt16(items, overflow) ==
    IF \E i \in 1..Len(items) : items[i].t = "str"
    THEN Raise("ValueError", "invalid literal for int() with base 10")
    ELSE IF \E i \in 1..Len(items) : items[i].t \notin {"int", "bool"}
    THEN Raise("TypeError", "int() argument must be a string, a bytes-like object or a real number")
    ELSE IF overflow = "raise" /\ \E i \in 1..Len(items) : ~InInt16(items[i].n)
    THEN Raise("OverflowError", "Python integer out of bounds for int16")
    ELSE Ok([i \in 1..Len(items) |-> WrapInt16(items[i].n)])

\* lines 44-55: validation and encoding; Ok(wav bytes) or the exception raised.
HandleAsrPrepare(req, overflow) ==
    LET sr == PyInt(DictGet(req.sample_rate, JInt(0)))
        samples == DictGet(req.samples, JNull)
        arr == NpArrayInt16(samples.items, overflow)
    IN  IF DictGet(req.audio_format, JNull) # JStr("pcm_s16le")
        THEN Raise("ValueError", "Unsupported audio_format; expected pcm_s16le")
        ELSE IF sr.raised THEN sr
        ELSE IF sr.v # SampleRate
        THEN Raise("ValueError", "Unsupported sample_rate; expected 16000")
        ELSE IF samples.t # "list"
        THEN Raise("ValueError", "samples must be a list of int16")
        ELSE IF arr.raised THEN arr
        ELSE Ok(pcm16_to_wav_bytes(arr.v, sr.v))

(***************************************************************************)
(* get_client                                                              *)
(***************************************************************************)
\* What Groq() does when neither the argument nor the environment gives a key: the
\* SDK either raises GroqError in the constructor ("raise") or hands out a client whose
\* calls fail ("ok").  With a key, even an empty one, the constructor returns.
CtorOutcomes(key) == IF key = "absent" THEN {"ok", "raise"} ELSE {"ok"}

\* get_client(): the new _client, the environment reads and constructor calls made,
\* the diagnostics printed, and the exception that escaped (if any).
GetClient(c, key, ctor) ==
    IF c # "None"
    THEN [client |-> c, envReads |-> 0, ctorCalls |-> 0, diag |-> <<>>, raised |-> FALSE, exc |-> NoExc]
    ELSE [client |-> IF ctor = "raise" THEN "None" ELSE "Groq",
          envReads |-> 1, ctorCalls |-> 1,
          diag |-> IF key # "set" THEN <<"GROQ_API_KEY is not set">> ELSE <<>>,
          raised |-> ctor = "raise",
          exc |-> IF ctor = "raise" THEN Exc("GroqError", "The api_key client option must be set") ELSE NoExc]


(***************************************************************************)
(* Inputs                                                                  *)
(***************************************************************************)
\* values of "type" other than "asr"
OtherTypes == {JStr("ping"), JStr(LoneSurrogate), JInt(5), JNull, Absent}

ReqFormats == {JStr("pcm_s16le"), JStr("wav"), Absent}

ReqRates == {JInt(16000), JInt(8000), JFloat(160005), JStr("16000"), JStr("abc"), JNull, Absent}

ReqSamples == {JList(<<JInt(0), JInt(0), JInt(0)>>), JList(<<JInt(40000)>>),
               JList(<<JStr("x")>>), Absent}

AsrRequests == {JObject(JStr("asr"), f, r, s) : f \in ReqFormats, r \in ReqRates, s \in ReqSamples}

OtherRequests == {JObject(ty, Absent, Absent, Absent) : ty \in OtherTypes}

\* JSON texts that are not objects
NonObjects == {JInt(42), JNull, JStr("asr"), JList(<<JInt(1)>>)}

\* a line of stdin: empty, whitespace only, not JSON, or the text of a JSON value
Line(kind, val) == [kind |-> kind, val |-> val]

Lines ==
    {Line("empty", JNull), Line("space", JNull), Line("malformed", JNull)}
    \cup {Line("json", v) : v \in AsrRequests \cup OtherRequests \cup NonObjects}

\* line.strip() is empty
StripsToEmpty(line) == line.kind \in {"empty", "space"}

\* a parser that never reports an error
JsonDecodeErrorNever(line) == FALSE

\* json.loads(line) raises JSONDecodeError
JsonDecodeError(line) == line.kind = "malformed"

\* what transcriptions.create can do: return a reply with text, a reply without, or raise
ServiceOutcomes(key) == IF key = "set" THEN {"text", "notext", "raise"} ELSE {"raise"}

ServiceExc(key) ==
    IF key = "set" THEN Exc("APIConnectionError", "Connection error.")
    ELSE Exc("AuthenticationError", "Invalid API Key")

(***************************************************************************)
(* The worker                                                              *)
(***************************************************************************)
NoLine == Line("none", JNull)

\* per-line bookkeeping: the line, and what handling it has done so far
Cur(no, line, out, diag, svc, ctor, env) ==
    [no |-> no, line |-> line, out |-> out, diag |-> diag, svc |-> svc, ctor |-> ctor, env |-> env]

Init ==
    /\ pc = "read"
    /\ stdinClosed = FALSE
    /\ nRead = 0
    /\ nParsed = 0
    /\ apiKey \in {"set", "empty", "absent"}
    /\ groqCtor \in CtorOutcomes(apiKey)
    /\ numpy \in {"wrap", "raise"}
    /\ client = "None"
    /\ envReads = 0
    /\ ctorCalls = 0
    /\ cur = Cur(0, NoLine, 0, 0, 0, 0, 0)
    /\ inflight = <<>>
    /\ outBuf = <<>>
    /\ stdout = <<>>
    /\ stderr = <<>>
    /\ exitCode = -1
    /\ exitCause = "none"
    /\ encIn = <<>>
    /\ encOut = <<>>
    /\ encPc = "off"

\* a flush that leaves the buffer where it is
FlushForgotten(out, buf) == [stdout |-> out, outBuf |-> buf]

\* sys.stdout.flush(): everything buffered reaches the parent
Flush(out, buf) == [stdout |-> out \o buf, outBuf |-> <<>>]

\* an exception escapes main(): line 127-130 logs it and exits 1
Fatal(site, diags) ==
    /\ pc' = "exited"
    /\ exitCode' = 1
    /\ exitCause' = site
    /\ stderr' = stderr \o diags \o <<"Worker fatal error">>
    /\ inflight' = <<>>
    /\ UNCHANGED <<stdout, outBuf>>

\* lines 119-120: write the response line and flush, then wait for the next line
Emit(no, resp, diags) ==
    IF RespEncodable(resp)
    THEN LET f == Flush(stdout, Append(outBuf, [no |-> no, resp |-> resp]))
         IN  /\ stdout' = f.stdout
             /\ outBuf' = f.outBuf
             /\ stderr' = stderr \o diags
             /\ pc' = "read"
             /\ inflight' = <<>>
             /\ UNCHANGED <<exitCode, exitCause>>
    ELSE Fatal("stdout.write", diags)

\* whether Emit(resp) gets the line out
Emitted(resp) == IF RespEncodable(resp) THEN 1 ELSE 0

\* One iteration of `for line in sys.stdin` (lines 88-120), up to the next blocking
\* point: the next read, or the service call of a valid asr request.
ReadLine(line) ==
    /\ pc = "read"
    /\ ~stdinClosed
    /\ nRead < MaxLines
    /\ nRead' = nRead + 1
    /\ nParsed' = IF StripsToEmpty(line) \/ JsonDecodeError(line) THEN nParsed ELSE nParsed + 1
    /\ UNCHANGED <<stdinClosed, apiKey, groqCtor, numpy, encVars>>
    /\ LET no == nRead + 1
           req == line.val
           typ == DictGet(req.type, JNull)
           prep == HandleAsrPrepare(req, numpy)
           gc == GetClient(client, apiKey, groqCtor)
       IN  IF StripsToEmpty(line)
           THEN /\ cur' = Cur(no, line, 0, 0, 0, 0, 0)
                /\ UNCHANGED <<pc, client, envReads, ctorCalls, inflight, outBuf, stdout,
                               stderr, exitCode, exitCause>>
           ELSE IF JsonDecodeError(line)
           THEN /\ cur' = Cur(no, line, 0, 1, 0, 0, 0)
                /\ stderr' = Append(stderr, "Invalid JSON")
                /\ UNCHANGED <<pc, client, envReads, ctorCalls, inflight, outBuf, stdout,
                               exitCode, exitCause>>
           ELSE IF ~IsObject(req)
           THEN \* req.get raises AttributeError outside every try of main()
                /\ cur' = Cur(no, line, 0, 1, 0, 0, 0)
                /\ Fatal("req.get", <<>>)
                /\ UNCHANGED <<client, envReads, ctorCalls>>
           ELSE IF typ # JStr("asr")
           THEN /\ cur' = Cur(no, line, Emitted(UnknownTypeResp(typ)),
                              2 - Emitted(UnknownTypeResp(typ)), 0, 0, 0)
                /\ Emit(no, UnknownTypeResp(typ), <<"Unknown request type">>)
                /\ UNCHANGED <<client, envReads, ctorCalls>>
           ELSE IF prep.raised
           THEN /\ cur' = Cur(no, line, 1, 1, 0, 0, 0)
                /\ Emit(no, HandlerErrorResp(prep.exc), <<"ASR handler error">>)
                /\ UNCHANGED <<client, envReads, ctorCalls>>
           ELSE /\ client' = gc.client
                /\ envReads' = envReads + gc.envReads
                /\ ctorCalls' = ctorCalls + gc.ctorCalls
                /\ IF gc.raised
                   THEN /\ cur' = Cur(no, line, 1, Len(gc.diag) + 1, 0, gc.ctorCalls, gc.envReads)
                        /\ Emit(no, HandlerErrorResp(gc.exc), gc.diag \o <<"ASR handler error">>)
                   ELSE /\ cur' = Cur(no, line, 0, Len(gc.diag), 1, gc.ctorCalls, gc.envReads)
                        /\ pc' = "calling"
                        /\ inflight' = prep.v
                        /\ stderr' = stderr \o gc.diag
                        /\ UNCHANGED <<outBuf, stdout, exitCode, exitCause>>

\* lines 61-83 and 119-120: transcriptions.create returns or raises, handle_asr builds
\* the response and main() writes it
ServiceReturn(outcome) ==
    /\ pc = "calling"
    /\ UNCHANGED <<stdinClosed, nRead, nParsed, apiKey, groqCtor, numpy, client, envReads, ctorCalls, encVars>>
    /\ IF outcome = "raise"
       THEN /\ cur' = [cur EXCEPT !.out = 1, !.diag = @ + 1]
            /\ Emit(cur.no, AsrFailedResp(ServiceExc(apiKey)), <<"ASR error">>)
       ELSE /\ cur' = [cur EXCEPT !.out = 1]
            /\ Emit(cur.no, AsrOkResp(IF outcome = "text" THEN "hello" ELSE ""), <<>>)

\* line 88: the iterator meets end-of-stream, main() returns and the process exits 0
ReadEOF ==
    /\ pc = "read"
    /\ stdinClosed
    /\ pc' = "exited"
    /\ exitCode' = 0
    /\ exitCause' = "eof"
    /\ UNCHANGED <<stdinClosed, nRead, nParsed, apiKey, groqCtor, numpy, client, envReads, ctorCalls, cur, inflight,
                   outBuf, stdout, stderr, encVars>>

\* a KeyboardInterrupt nobody catches: the interpreter prints the traceback and exits 130
InterruptUncaught ==
    /\ pc \in {"read", "calling"}
    /\ pc' = "exited"
    /\ exitCode' = 130
    /\ exitCause' = "interrupt"
    /\ inflight' = <<>>
    /\ stderr' = Append(stderr, "Traceback")
    /\ UNCHANGED <<stdinClosed, nRead, nParsed, apiKey, groqCtor, numpy, client, envReads,
                   ctorCalls, cur, outBuf, stdout, encVars>>

\* lines 125-126: KeyboardInterrupt, wherever it is raised, ends the process quietly
Interrupt ==
    /\ pc \in {"read", "calling"}
    /\ pc' = "exited"
    /\ exitCode' = 0
    /\ exitCause' = "interrupt"
    /\ inflight' = <<>>
    /\ UNCHANGED <<stdinClosed, nRead, nParsed, apiKey, groqCtor, numpy, client, envReads, ctorCalls, cur,
                   outBuf, stdout, stderr, encVars>>

\* the parent closes its end of the pipe
CloseStdin ==
    /\ pc # "exited"
    /\ ~stdinClosed
    /\ stdinClosed' = TRUE
    /\ UNCHANGED <<pc, nRead, nParsed, apiKey, groqCtor, numpy, client, envReads, ctorCalls, cur, inflight,
                   outBuf, stdout, stderr, exitCode, exitCause, encVars>>

\* the parent supplies a line
Read == \E line \in Lines : ReadLine(line)

\* the blocking service call ends
Return == \E outcome \in ServiceOutcomes(apiKey) : ServiceReturn(outcome)

Next == Read \/ Return \/ ReadEOF \/ Interrupt \/ CloseStdin

Spec == Init /\ [][Next]_vars

\* every service call returns, and a worker that sees end-of-stream acts on it
FairSpec == Spec /\ WF_vars(Return) /\ WF_vars(ReadEOF)


(***************************************************************************)
(* The encoder on its own: pcm16_to_wav_bytes applied to integer arrays    *)
(***************************************************************************)
SampleVals == {-40000, -32769, -32768, -1, 0, 1, 255, 256, 32767, 32768, 65536}

SampleSeqs == UNION {[1..n -> SampleVals] : n \in 0..MaxLen}

InitEnc ==
    /\ encPc = "in"
    /\ encIn \in SampleSeqs
    /\ encOut = <<>>
    /\ pc = "read"
    /\ stdinClosed = FALSE
    /\ nRead = 0
    /\ nParsed = 0
    /\ apiKey = "set"
    /\ groqCtor = "ok"
    /\ numpy = "wrap"
    /\ client = "None"
    /\ envReads = 0
    /\ ctorCalls = 0
    /\ cur = Cur(0, NoLine, 0, 0, 0, 0, 0)
    /\ inflight = <<>>
    /\ outBuf = <<>>
    /\ stdout = <<>>
    /\ stderr = <<>>
    /\ exitCode = -1
    /\ exitCause = "none"

Encode ==
    /\ encPc = "in"
    /\ encOut' = pcm16_to_wav_bytes(encIn, SampleRate)
    /\ encPc' = "out"
    /\ UNCHANGED <<encIn, workerVars>>

SpecEnc == InitEnc /\ [][Encode]_vars


(***************************************************************************)
(* Properties                                                              *)
(***************************************************************************)
\* the worker is between requests, or ended otherwise than by an interrupt
Quiescent == pc = "read" \/ (pc = "exited" /\ exitCause # "interrupt")

CurReq == cur.line.val

CurIsObject == cur.line.kind = "json" /\ IsObject(CurReq)

CurIsAsr == CurIsObject /\ DictGet(CurReq.type, JNull) = JStr("asr")

\* the most recent line on stdout answers the current line
LastAnswersCur == Len(stdout) > 0 /\ stdout[Len(stdout)].no = cur.no

LastResp == stdout[Len(stdout)].resp

\* the JSON number 16000 (16000 or 16000.0)
Is16000(v) == (v.t = "int" /\ v.n = 16000) \/ (v.t = "float" /\ v.n = 160000)

\* an asr request that passes validation and encodes on every NumPy
ValidAsr(req) == \A ov \in {"wrap", "raise"} : ~HandleAsrPrepare(req, ov).raised

\* C1: whenever the worker is between requests (or has ended without an interrupt), the
\* number of response lines on stdout equals the number of input lines that parsed as
\* JSON: every such line, whatever value it holds, produced exactly one response.
C1_OneResponsePerJsonLine == Quiescent => Len(stdout) = nParsed

\* C2: no per-request error terminates the worker: the process ends only by end of
\* input or an interrupt, and a request whose handling raised is answered with an
\* asr_handler_error response.
C2_NoRequestErrorIsFatal ==
    /\ pc = "exited" => exitCause \in {"eof", "interrupt"}
    /\ (pc = "read" /\ CurIsAsr /\ ~ValidAsr(CurReq) /\ cur.svc = 0)
          => (LastAnswersCur /\ LastResp.error.tag = "asr_handler_error")

\* C3: an asr request whose sample_rate is not 16000 or whose audio_format is not
\* "pcm_s16le" never reaches the service and never creates the client, and its response
\* has a non-null error and empty text.
C3_InvalidRequestNeverCallsService ==
    (CurIsAsr /\ (~Is16000(CurReq.sample_rate) \/ CurReq.audio_format # JStr("pcm_s16le")))
        => /\ cur.svc = 0
           /\ cur.ctor = 0
           /\ Quiescent => (LastAnswersCur /\ LastResp.error # ErrNone /\ LastResp.text = "")

\* C4: when the transcription of a valid asr request fails (the absent credential
\* included), the response has empty text and an error tagged groq_asr_failed, and the
\* worker goes on to the next line.
C4_ServiceFailureIsGroqAsrFailed ==
    (Quiescent /\ CurIsAsr /\ ValidAsr(CurReq) /\ LastAnswersCur /\ LastResp.error # ErrNone)
        => (LastResp.error.tag = "groq_asr_failed" /\ LastResp.text = "" /\ pc = "read")

\* C5: a request whose type is not "asr" (or is missing) is answered with an asr_result
\* whose error is "unknown_request_type: <value>" and whose text is empty, and the
\* service is not called for it.
C5_UnknownTypeAnswered ==
    (Quiescent /\ CurIsObject /\ ~CurIsAsr)
        => /\ cur.out = 1
           /\ cur.svc = 0
           /\ LastAnswersCur
           /\ LastResp = Resp("", Err("unknown_request_type", "", PyStr(DictGet(CurReq.type, JNull))))

\* the line read last is not valid JSON
CurNotJson == cur.line.kind \in {"empty", "space", "malformed"}

\* C6 as stated: every input line that is not valid JSON produces no output line and
\* exactly one diagnostic line, and the loop continues.
C6_NotJsonLoggedOnce ==
    CurNotJson => (cur.out = 0 /\ cur.diag = 1 /\ ~LastAnswersCur)

\* C6 amended: a line that is not blank and that json.loads rejects produces no output
\* line and exactly one diagnostic line ("Invalid JSON"), and the worker stays in the
\* loop; a blank line produces neither output nor diagnostic.
C6_MalformedLoggedOnce ==
    /\ cur.line.kind = "malformed"
          => /\ cur.out = 0 /\ cur.diag = 1 /\ ~LastAnswersCur
             /\ Len(stderr) > 0 /\ stderr[Len(stderr)] = "Invalid JSON"
             /\ pc = "read" \/ exitCause \in {"eof", "interrupt"}
    /\ cur.line.kind \in {"empty", "space"}
          => /\ cur.out = 0 /\ cur.diag = 0 /\ ~LastAnswersCur
             /\ pc = "read" \/ exitCause \in {"eof", "interrupt"}

\* a malformed second line was dropped after the first line had been answered
C6_Witness ==
    /\ cur.line.kind = "malformed" /\ cur.no = 2 /\ pc = "read"
    /\ Len(stdout) = 1 /\ stderr[Len(stderr)] = "Invalid JSON"

Sub(b, from, to) == [i \in 1..(to - from + 1) |-> b[from + i - 1]]

RECURSIVE FromLE(_)
FromLE(b) == IF b = <<>> THEN 0 ELSE b[1] + 256 * FromLE(Tail(b))

Signed16(u) == IF u >= 32768 THEN u - 65536 ELSE u

WaveRead(b) ==
    LET wellFormed ==
            /\ Len(b) >= 44
            /\ Sub(b, 1, 4) = TagRIFF /\ Sub(b, 9, 12) = TagWAVE
            /\ Sub(b, 13, 16) = TagFmt /\ FromLE(Sub(b, 17, 20)) = 16
            /\ FromLE(Sub(b, 21, 22)) = 1
            /\ Sub(b, 37, 40) = TagData
            /\ FromLE(Sub(b, 5, 8)) = Len(b) - 8
            /\ FromLE(Sub(b, 41, 44)) = Len(b) - 44
            /\ FromLE(Sub(b, 33, 34)) = 2
        n == (Len(b) - 44) \div 2
    IN  IF ~wellFormed THEN [ok |-> FALSE]
        ELSE [ok |-> TRUE,
              nchannels |-> FromLE(Sub(b, 23, 24)),
              framerate |-> FromLE(Sub(b, 25, 28)),
              sampwidth |-> FromLE(Sub(b, 35, 36)) \div 8,
              samples |-> [i \in 1..n |-> Signed16(FromLE(Sub(b, 43 + 2 * i, 44 + 2 * i)))]]

Clamp16(x) == IF x < Int16Min THEN Int16Min ELSE IF x > Int16Max THEN Int16Max ELSE x

\* C8 as stated: decoding the encoder's output yields the input, of the same length,
\* with each out-of-range value clamped to [-32768, 32767].
C8_RoundTripClamps ==
    encPc = "out" =>
        LET w == WaveRead(encOut)
        IN  w.ok /\ w.samples = [i \in 1..Len(encIn) |-> Clamp16(encIn[i])]

\* C8 amended: decoding the encoder's output yields a mono 16-bit 16000 Hz stream of the
\* input's length in which every in-range sample is unchanged and every out-of-range
\* sample is reduced modulo 2^16 into [-32768, 32767] (wrapped, not clamped, not rejected).
C8_RoundTripWraps ==
    encPc = "out" =>
        LET w == WaveRead(encOut)
        IN  /\ w.ok
            /\ w.nchannels = 1 /\ w.sampwidth = 2 /\ w.framerate = SampleRate
            /\ Len(w.samples) = Len(encIn)
            /\ \A i \in 1..Len(encIn) :
                  /\ InInt16(w.samples[i])
                  /\ (w.samples[i] - encIn[i]) % TwoTo16 = 0

\* an array with an out-of-range and an in-range sample has been encoded
C8_Witness == encPc = "out" /\ encIn = <<32768, -1>> /\ Len(encOut) = 48

\* C9: the client is constructed and the credential is read at most once in the process
\* lifetime, and no client exists before an asr request has passed validation.
C9_ClientBuiltOnce ==
    /\ ctorCalls <= 1
    /\ envReads <= 1
    /\ (client # "None") => ctorCalls = 1

\* C10: requests are handled one at a time in input order: responses appear on stdout in
\* the order of their input lines, nothing written stays unflushed when the worker waits
\* for input or for the service, and the only service call in flight belongs to the line
\* read last, every earlier answered line being already on stdout.
C10_OneAtATimeInOrder ==
    /\ outBuf = <<>>
    /\ \A k \in 1..Len(stdout) : stdout[k].no <= nRead
    /\ \A k \in 1..(Len(stdout) - 1) : stdout[k].no < stdout[k + 1].no
    /\ (pc = "read" /\ cur.out = 1) => LastAnswersCur
    /\ (pc = "calling") <=> (inflight # <<>>)
    /\ pc = "calling" =>
          /\ cur.no = nRead /\ cur.svc = 1 /\ cur.out = 0
          /\ \A k \in 1..Len(stdout) : stdout[k].no < nRead

\* the second line's service call is in flight after the first line was answered
C10_Witness == pc = "calling" /\ nRead = 2 /\ Len(stdout) = 1 /\ stdout[1].no = 1

====
